---- MODULE Spec2Model ----
(***************************************************************************)
(* The three-pass tokenizer of src/src/parser.rs.                          *)
(*                                                                         *)
(* A text is a sequence of one-character strings; every character of the   *)
(* modelled alphabet is one byte long, so byte offsets and character       *)
(* positions coincide.  Offsets are 0-based as in the source; sequences    *)
(* are 1-based as in TLA+.  A Sequence (parser.rs:147) is a record         *)
(* [token, text, start]: text is the content of the slice and start the    *)
(* offset at which the slice begins in the source buffer.                  *)
(***************************************************************************)
EXTENDS Integers, Sequences, FiniteSets, TLC

VARIABLES
    text,         \* the argument of parse (parser.rs:289)
    pc,           \* "pass1", "pass2", "pass3": in the loop of that pass;
                  \* "comment": in the loop of parse_multi_line_comment;
                  \* "string": in the loop of parse_string_literal; "done"
    parser1,      \* the StrParser of parse_level_one_tokens (parser.rs:298)
    result1,      \* its result (parser.rs:296)
    parser2,      \* the VecParser of parse_level_two_tokens (parser.rs:323)
    line_number,  \* its line_number (parser.rs:321)
    result2,      \* its result (parser.rs:319)
    parser3,      \* the VecParser of parse_level_three_tokens (parser.rs:399)
    result3,      \* its result (parser.rs:397)
    level,        \* level of parse_multi_line_comment (parser.rs:510)
    raw_string,   \* raw_string of parse_string_literal (parser.rs:442)
    hash_len,     \* hash_len of parse_string_literal (parser.rs:443)
    returned,     \* history: the [text, result] of the calls of parse that
                  \* have returned before the current one, in order
    spaces        \* the locals of parse_spaces (main.rs:111-116): i, the
                  \* index char_indices yields next, last_token, start_index,
                  \* end_index and result; pc is "spaces" in its loop and
                  \* "spaces_done" when it has returned

vars == <<text, pc, parser1, result1, parser2, line_number, result2,
          parser3, result3, level, raw_string, hash_len, returned, spaces>>

(***************************************************************************)
(* Bounds and input alphabets                                              *)
(***************************************************************************)
MaxLen == 3
MaxCommentLen == 7
MaxNestLen == 9
MaxRawLen == 8
MaxEscLen == 8
MaxCharLen == 6
MaxErrLen == 5
MaxPrefixLen == 6
MaxSpaceLen == 6
MaxWordLen == 5
MaxFairLen == 3
MaxNewLineLen == 5
MaxTableLen == 5
MaxCalls == 3
MaxCharEscLen == 7
MaxLineLen == 5
CoverLen == 2

\* one character (or two) of every class of LevelOneToken::from
Alphabet == {"*", "\\", "'", "/", "#", "b", "r", "\"", "0", "\r", "\n", "a", " "}
CommentChars == {"/", "*", "\n"}
NestChars == {"/", "*"}
RawChars == {"r", "#", "\""}
EscChars == {"\"", "\\", "a"}
CharChars == {"'", "a", "r", " "}
ErrChars == {"*", "/", "'", "\"", "\n"}
FairChars == {"/", "*", "'", "\"", "r", "\n"}
SpaceChars == {" ", "\n", "a", "/"}
PrefixChars == {"b", "r", "\"", "\\"}
WordChars == {"a", "b", "r", "0", "_", "B", " "}
NewLineExample == <<"/", "*", "\n", "*", "/", "\r", "\n">>
NewLineChars == {"\n", "\r", "/", "*", "\"", "'"}
TableChars == {"/", "*", "a", "b", "r", "0", "\n"}
CharEscChars == {"'", "\\", "\"", " "}
LineChars == {"/", "*", "\"", "\\", "\n", "\r"}

\* the texts the specification gives as examples
NestExample ==
    <<"/", "*", " ", "a", " ", "/", "*", " ", "b", " ", "*", "/", " ", "c", " ", "*", "/">>
RawExampleOne == <<"r", "#", "\"", "a", "\"", "#">>
RawExampleTwo == <<"r", "#", "#", "\"", "a", "\"", "#", "\"", "#", "#">>
RawExampleUnclosed == <<"r", "#", "\"", "a", "\"">>
EscExample == <<"\"", "a", "\\", "\"", "b", "\"">>

RECURSIVE Strings(_, _)
Strings(A, n) ==
    IF n = 0 THEN {<<>>}
    ELSE LET S == Strings(A, n - 1)
         IN  S \cup {Append(s, c) : s \in {x \in S : Len(x) = n - 1}, c \in A}

\* every short text, and the longer texts made of the characters that open
\* and close constructs
Inputs == Strings(Alphabet, MaxLen) \cup Strings(ErrChars, MaxErrLen)
CoverInputs == Strings(Alphabet, CoverLen)
\* the texts of the calls that follow one another
CallInputs == {<<"\n">>, <<"a", "\n">>, <<"\n", "\n">>}
CommentInputs ==
    CoverInputs \cup Strings(CommentChars, MaxCommentLen) \cup Strings(NestChars, MaxNestLen)
        \cup {NestExample}
RawInputs ==
    CoverInputs \cup Strings(RawChars, MaxRawLen)
        \cup {RawExampleOne, RawExampleTwo, RawExampleUnclosed}
EscInputs == CoverInputs \cup Strings(EscChars, MaxEscLen) \cup {EscExample}
CharInputs == CoverInputs \cup Strings(CharChars, MaxCharLen)
SpaceInputs == Strings(SpaceChars, MaxSpaceLen)
PrefixInputs == CoverInputs \cup Strings(PrefixChars, MaxPrefixLen)
WordInputs == CoverInputs \cup Strings(WordChars, MaxWordLen)
FairInputs == Strings(FairChars, MaxFairLen)
NewLineInputs ==
    CoverInputs \cup Strings(NewLineChars, MaxNewLineLen) \cup {NewLineExample}
TableInputs == CoverInputs \cup Strings(TableChars, MaxTableLen)
CharEscInputs == CoverInputs \cup Strings(CharEscChars, MaxCharEscLen)
LineInputs == CoverInputs \cup Strings(LineChars, MaxLineLen)

(***************************************************************************)
(* Option::None of an item position, and slices of the source buffer       *)
(***************************************************************************)
None == -1

\* &t[a..b]
Slice(t, a, b) == SubSeq(t, a + 1, b)

(***************************************************************************)
(* LevelOneToken                                                           *)
(***************************************************************************)
Digits == {"0", "1", "2", "3", "4", "5", "6", "7", "8", "9"}
Letters == {"_", "a", "b", "c", "d", "e", "f", "g", "h", "i", "j", "k", "l", "m",
            "n", "o", "p", "q", "r", "s", "t", "u", "v", "w", "x", "y", "z",
            "A", "B", "C", "D", "E", "F", "G", "H", "I", "J", "K", "L", "M",
            "N", "O", "P", "Q", "R", "S", "T", "U", "V", "W", "X", "Y", "Z"}

LevelOneTokenFrom(c) ==
    CASE c = "*" -> "Asterisc"
      [] c = "\\" -> "BackSlash"
      [] c = "'" -> "CharDelimiter"
      [] c = "/" -> "ForwardSlash"
      [] c = "#" -> "Hash"
      [] c = "b" -> "LowerCaseB"
      [] c = "r" -> "LowerCaseR"
      [] c = "\"" -> "StrDelimiter"
      [] c \in Digits -> "Digit"
      [] c \in {"\r", "\n"} -> "NewLine"
      [] c \in Letters -> "UnderscoreLetter"
      [] OTHER -> "Other"

\* no class absorbs the characters that follow
is_greedy_none(token) == FALSE

is_greedy(token) ==
    token \in {"Digit", "Hash", "NewLine", "Other", "UnderscoreLetter"}

(***************************************************************************)
(* StrParser: the cursor of pass 1.  iterator is the offset of the next    *)
(* character char_indices will yield.                                      *)
(***************************************************************************)
StrParserNext(t, p) ==
    IF p.iterator < Len(t)
    THEN [p EXCEPT !.current_item = p.iterator, !.iterator = p.iterator + 1]
    ELSE [p EXCEPT !.current_item = None]

StrParserNew(t) ==
    StrParserNext(t, [iterator |-> 0, current_item |-> None, start_index |-> 0])

\* start_index is not moved to the current character
StrParserBeginParsingKeepStart(t, p) == StrParserNext(t, p)

\* called with current_item = Some((current_index, c))
StrParserBeginParsing(t, p) ==
    StrParserNext(t, [p EXCEPT !.start_index = p.current_item])

\* at the end of the input the slice stops one byte short
StrParserParsedStrDropsLast(t, p) ==
    IF p.current_item # None
    THEN Slice(t, p.start_index, p.current_item)
    ELSE Slice(t, p.start_index, Len(t) - 1)

StrParserParsedStr(t, p) ==
    IF p.current_item # None
    THEN Slice(t, p.start_index, p.current_item)
    ELSE Slice(t, p.start_index, Len(t))

\* parse_while with the predicate of parse_level_one_tokens
RECURSIVE StrParserParseWhile(_, _, _)
StrParserParseWhile(t, p, token) ==
    IF p.current_item # None /\ LevelOneTokenFrom(t[p.current_item + 1]) = token
    THEN StrParserParseWhile(t, StrParserNext(t, p), token)
    ELSE p

\* one iteration of the loop of parse_level_one_tokens
LevelOneIteration(t, p, result) ==
    LET c == t[p.current_item + 1]
        p0 == StrParserBeginParsing(t, p)
        token == LevelOneTokenFrom(c)
        p1 == IF is_greedy(token) THEN StrParserParseWhile(t, p0, token) ELSE p0
    IN  [parser |-> p1,
         result |-> Append(result, [token |-> token,
                                    text |-> StrParserParsedStr(t, p1),
                                    start |-> p1.start_index])]

RECURSIVE LevelOneLoop(_, _, _)
LevelOneLoop(t, p, result) ==
    IF p.current_item = None THEN result
    ELSE LET it == LevelOneIteration(t, p, result)
         IN  LevelOneLoop(t, it.parser, it.result)

parse_level_one_tokens(t) == LevelOneLoop(t, StrParserNew(t), <<>>)

(***************************************************************************)
(* VecParser: the cursor of passes 2 and 3 over a vector v of Sequences.   *)
(* iterator is the 0-based position of the next element the slice          *)
(* iterator will yield; current_item and next_item are positions or None.  *)
(***************************************************************************)
\* end_index counts spans instead of bytes
VecParserNextCountsSpans(v, p) ==
    [p EXCEPT !.current_item = p.next_item,
              !.next_item = IF p.iterator < Len(v) THEN p.iterator ELSE None,
              !.iterator = IF p.iterator < Len(v) THEN p.iterator + 1 ELSE p.iterator,
              !.end_index = IF p.next_item # None THEN p.end_index + 1 ELSE p.end_index]

VecParserNext(v, p) ==
    [p EXCEPT !.current_item = p.next_item,
              !.next_item = IF p.iterator < Len(v) THEN p.iterator ELSE None,
              !.iterator = IF p.iterator < Len(v) THEN p.iterator + 1 ELSE p.iterator,
              !.end_index = IF p.next_item # None
                            THEN p.end_index + Len(v[p.next_item + 1].text)
                            ELSE p.end_index]

VecParserNew(v) ==
    [iterator |-> IF Len(v) > 0 THEN 1 ELSE 0,
     current_item |-> None,
     next_item |-> IF Len(v) > 0 THEN 0 ELSE None,
     start_index |-> 0,
     end_index |-> 0]

VecParserBeginParsing(v, p) ==
    VecParserNext(v, [p EXCEPT !.start_index = p.end_index])

\* current_token / next_token: the kind of the token, "None" for Option::None
current_token(v, p) ==
    IF p.current_item = None THEN "None" ELSE v[p.current_item + 1].token

next_token(v, p) ==
    IF p.next_item = None THEN "None" ELSE v[p.next_item + 1].token

next_token_is(v, p, value) == next_token(v, p) = value

\* next_if with the predicate next_token_is(value)
next_if_next_token_is(v, p, value) ==
    IF next_token_is(v, p, value)
    THEN [parser |-> VecParserNext(v, p), taken |-> TRUE]
    ELSE [parser |-> p, taken |-> FALSE]

VecParserParsedStr(t, p) == Slice(t, p.start_index, p.end_index)

(***************************************************************************)
(* Pass 2.  A LevelTwoToken is its kind; the line number of NewLine(n) is  *)
(* the field n of the Sequence (0 for the other kinds).                    *)
(***************************************************************************)
LevelTwoTokenFrom(token) ==
    CASE token = "BackSlash" -> "BackSlash"
      [] token = "CharDelimiter" -> "CharDelimiter"
      [] token = "Hash" -> "Hash"
      [] token = "StrDelimiter" -> "StrDelimiter"
      [] OTHER -> "Other"

RECURSIVE CountNewLines(_, _)
CountNewLines(s, c) ==
    IF s = <<>> THEN 0
    ELSE (IF Head(s) = c THEN 1 ELSE 0) + CountNewLines(Tail(s), c)

\* every character of a NewLine span counts, carriage returns too
cout_new_lines_any(s) == Len(s)

\* a NewLine span counts for one line whatever it holds
cout_new_lines_one(s) == 1

cout_new_lines(s) == CountNewLines(s, "\n")

\* a word does not extend over the letters b and r
RECURSIVE parse_word_stops_at_prefix(_, _)
parse_word_stops_at_prefix(v, p) ==
    IF next_token(v, p) \in {"UnderscoreLetter", "Digit"}
    THEN parse_word_stops_at_prefix(v, VecParserNext(v, p))
    ELSE [parser |-> p, token |-> "Word"]

\* a word extends over the spans of other characters too
RECURSIVE parse_word_over_others(_, _)
parse_word_over_others(v, p) ==
    IF next_token(v, p) \in {"UnderscoreLetter", "Digit", "LowerCaseB", "LowerCaseR", "Other"}
    THEN parse_word_over_others(v, VecParserNext(v, p))
    ELSE [parser |-> p, token |-> "Word"]

RECURSIVE parse_word(_, _)
parse_word(v, p) ==
    IF next_token(v, p) \in {"UnderscoreLetter", "Digit", "LowerCaseB", "LowerCaseR"}
    THEN parse_word(v, VecParserNext(v, p))
    ELSE [parser |-> p, token |-> "Word"]

parse_possible_end_multi_line_comment(v, p) ==
    LET r == next_if_next_token_is(v, p, "ForwardSlash")
    IN  [parser |-> r.parser,
         token |-> IF r.taken THEN "EndMultiLineComment" ELSE "Other"]

parse_possible_comment_token(v, p) ==
    LET r1 == next_if_next_token_is(v, p, "ForwardSlash")
        r2 == next_if_next_token_is(v, p, "Asterisc")
    IN  IF r1.taken THEN [parser |-> r1.parser, token |-> "BeginSingleLineComment"]
        ELSE IF r2.taken THEN [parser |-> r2.parser, token |-> "BeginMultiLineComment"]
        ELSE [parser |-> p, token |-> "Other"]

\* one iteration of the loop of parse_level_two_tokens
LevelTwoIteration(t, v, p, ln, result) ==
    LET p0 == VecParserBeginParsing(v, p)
        s == v[p0.current_item + 1]
        ln1 == IF s.token = "NewLine" THEN ln + cout_new_lines(s.text) ELSE ln
        r == CASE s.token = "Asterisc" -> parse_possible_end_multi_line_comment(v, p0)
               [] s.token = "ForwardSlash" -> parse_possible_comment_token(v, p0)
               [] s.token = "LowerCaseB" ->
                    [parser |-> next_if_next_token_is(v, p0, "LowerCaseR").parser,
                     token |-> "StrPrefix"]
               [] s.token = "LowerCaseR" -> [parser |-> p0, token |-> "StrPrefix"]
               [] s.token = "NewLine" -> [parser |-> p0, token |-> "NewLine"]
               [] s.token = "UnderscoreLetter" -> parse_word(v, p0)
               [] OTHER -> [parser |-> p0, token |-> LevelTwoTokenFrom(s.token)]
    IN  [parser |-> r.parser,
         line_number |-> ln1,
         result |-> Append(result, [token |-> r.token,
                                    n |-> IF r.token = "NewLine" THEN ln1 ELSE 0,
                                    text |-> VecParserParsedStr(t, r.parser),
                                    start |-> r.parser.start_index])]

RECURSIVE LevelTwoLoop(_, _, _, _, _)
LevelTwoLoop(t, v, p, ln, result) ==
    IF p.next_item = None THEN result
    ELSE LET it == LevelTwoIteration(t, v, p, ln, result)
         IN  LevelTwoLoop(t, v, it.parser, it.line_number, it.result)

parse_level_two_tokens(t, sequences) ==
    LevelTwoLoop(t, sequences, VecParserNew(sequences), 1, <<>>)

(***************************************************************************)
(* Pass 3.  A Token is a record [token, n, reason]: n is the line number   *)
(* of NewLine(n), or the number the message of                             *)
(* unclosed_multi_line_comment formats; reason is the String of Invalid.   *)
(***************************************************************************)
Tok(kind) == [token |-> kind, n |-> 0, reason |-> ""]

invalid_char_literal == [Tok("Invalid") EXCEPT !.reason = "Invalid char literal"]

invalid_raw_string_literal ==
    [Tok("Invalid") EXCEPT !.reason = "Invalid raw string literal"]

multi_line_comment_without_beggining ==
    [Tok("Invalid") EXCEPT
        !.reason = "Multiline end comment detected without a beginning."]

unclosed_char_literal ==
    [Tok("Invalid") EXCEPT !.reason = "Unclosed char or lifetime elision"]

unclosed_multi_line_comment(unclosed_levels) ==
    [Tok("Invalid") EXCEPT
        !.reason = "Multiline comment not closed (n level(s) unclosed).",
        !.n = unclosed_levels]

unclosed_string_literal == [Tok("Invalid") EXCEPT !.reason = "Unclosed string literal"]

\* impl From<LevelTwoToken> for Token, applied to a Sequence of pass 2
TokenFrom(s) ==
    IF s.token = "NewLine" THEN [Tok("NewLine") EXCEPT !.n = s.n] ELSE Tok("Other")

\* parse_until with a predicate on current_token
RECURSIVE ParseUntilCurrentIn(_, _, _)
ParseUntilCurrentIn(v, p, kinds) ==
    IF current_token(v, p) \in kinds THEN p
    ELSE ParseUntilCurrentIn(v, VecParserNext(v, p), kinds)

\* parse_until with a predicate on next_token
RECURSIVE ParseUntilNextIn(_, _, _)
ParseUntilNextIn(v, p, kinds) ==
    IF next_token(v, p) \in kinds THEN p
    ELSE ParseUntilNextIn(v, VecParserNext(v, p), kinds)

advance_and_parse_until(v, p, kinds) ==
    ParseUntilCurrentIn(v, VecParserNext(v, p), kinds)

\* a string delimiter ends the comment as a new line does
parse_single_line_comment_to_quote(v, p) ==
    [parser |-> ParseUntilNextIn(v, p, {"None", "NewLine", "StrDelimiter"}),
     tok |-> Tok("SingleLineComment")]

parse_single_line_comment(v, p) ==
    [parser |-> ParseUntilNextIn(v, p, {"None", "NewLine"}),
     tok |-> Tok("SingleLineComment")]

parse_until_close_char_literal(v, p) ==
    LET p1 == advance_and_parse_until(v, p, {"None", "CharDelimiter"})
    IN  [parser |-> p1,
         tok |-> IF p1.current_item = None THEN unclosed_char_literal
                 ELSE Tok("CharLiteral")]

\* a word after the delimiter is scanned like any other character, up to
\* the closing delimiter
parse_char_literal_or_elison_scans_word(v, p) ==
    LET p1 == VecParserNext(v, p)
        cur == current_token(v, p1)
    IN  CASE cur = "BackSlash" ->
               parse_until_close_char_literal(v, VecParserNext(v, p1))
          [] cur \in {"Word", "StrPrefix", "StrDelimiter", "Other"} ->
               parse_until_close_char_literal(v, p1)
          [] cur = "None" -> [parser |-> p1, tok |-> unclosed_char_literal]
          [] OTHER -> [parser |-> p1, tok |-> invalid_char_literal]

\* the span after a backslash is not skipped
parse_char_literal_or_elison_no_skip(v, p) ==
    LET p1 == VecParserNext(v, p)
        cur == current_token(v, p1)
    IN  CASE cur \in {"Word", "StrPrefix"} ->
               LET r == next_if_next_token_is(v, p1, "CharDelimiter")
               IN  [parser |-> r.parser,
                    tok |-> IF r.taken THEN Tok("CharLiteral")
                            ELSE Tok("LifetimeElision")]
          [] cur \in {"BackSlash", "StrDelimiter", "Other"} ->
               parse_until_close_char_literal(v, p1)
          [] cur = "None" -> [parser |-> p1, tok |-> unclosed_char_literal]
          [] OTHER -> [parser |-> p1, tok |-> invalid_char_literal]

\* an invalid char literal covers the delimiter alone
parse_char_literal_or_elison_invalid_alone(v, p) ==
    LET p1 == VecParserNext(v, p)
        cur == current_token(v, p1)
    IN  CASE cur = "BackSlash" ->
               parse_until_close_char_literal(v, VecParserNext(v, p1))
          [] cur \in {"Word", "StrPrefix"} ->
               LET r == next_if_next_token_is(v, p1, "CharDelimiter")
               IN  [parser |-> r.parser,
                    tok |-> IF r.taken THEN Tok("CharLiteral")
                            ELSE Tok("LifetimeElision")]
          [] cur \in {"StrDelimiter", "Other"} -> parse_until_close_char_literal(v, p1)
          [] cur = "None" -> [parser |-> p1, tok |-> unclosed_char_literal]
          [] OTHER -> [parser |-> p, tok |-> invalid_char_literal]

parse_char_literal_or_elison(v, p) ==
    LET p1 == VecParserNext(v, p)
        cur == current_token(v, p1)
    IN  CASE cur = "BackSlash" ->
               parse_until_close_char_literal(v, VecParserNext(v, p1))
          [] cur \in {"Word", "StrPrefix"} ->
               LET r == next_if_next_token_is(v, p1, "CharDelimiter")
               IN  [parser |-> r.parser,
                    tok |-> IF r.taken THEN Tok("CharLiteral")
                            ELSE Tok("LifetimeElision")]
          [] cur \in {"StrDelimiter", "Other"} -> parse_until_close_char_literal(v, p1)
          [] cur = "None" -> [parser |-> p1, tok |-> unclosed_char_literal]
          [] OTHER -> [parser |-> p1, tok |-> invalid_char_literal]

\* the closing run of hashes may have any length
StringIterationAnyHash(v, p, raw, hl) ==
    LET p1 == VecParserNext(v, p)
        cur == current_token(v, p1)
        go(q) == [parser |-> q, done |-> FALSE, tok |-> Tok("Other")]
    IN  CASE cur = "BackSlash" /\ ~raw -> go(VecParserNext(v, p1))
          [] cur = "StrDelimiter" ->
               IF hl = 0
               THEN [parser |-> p1, done |-> TRUE, tok |-> Tok("StrLiteral")]
               ELSE IF /\ p1.next_item # None
                       /\ v[p1.next_item + 1].token = "Hash"
                    THEN [parser |-> VecParserNext(v, p1), done |-> TRUE,
                          tok |-> Tok("StrLiteral")]
                    ELSE go(p1)
          [] cur = "None" -> [parser |-> p1, done |-> TRUE, tok |-> unclosed_string_literal]
          [] OTHER -> go(p1)

\* the span after a backslash is not skipped
StringIterationSkipsNothing(v, p, raw, hl) ==
    LET p1 == VecParserNext(v, p)
        cur == current_token(v, p1)
        go(q) == [parser |-> q, done |-> FALSE, tok |-> Tok("Other")]
    IN  CASE cur = "StrDelimiter" ->
               IF hl = 0
               THEN [parser |-> p1, done |-> TRUE, tok |-> Tok("StrLiteral")]
               ELSE IF /\ p1.next_item # None
                       /\ v[p1.next_item + 1].token = "Hash"
                       /\ hl = Len(v[p1.next_item + 1].text)
                    THEN [parser |-> VecParserNext(v, p1), done |-> TRUE,
                          tok |-> Tok("StrLiteral")]
                    ELSE go(p1)
          [] cur = "None" -> [parser |-> p1, done |-> TRUE, tok |-> unclosed_string_literal]
          [] OTHER -> go(p1)

\* one iteration of the loop of parse_string_literal
\* a new line ends the string as the end of the input does
StringIterationEndsAtNewLine(v, p, raw, hl) ==
    LET p1 == VecParserNext(v, p)
        cur == current_token(v, p1)
        go(q) == [parser |-> q, done |-> FALSE, tok |-> Tok("Other")]
    IN  CASE cur = "BackSlash" /\ ~raw -> go(VecParserNext(v, p1))
          [] cur = "StrDelimiter" ->
               IF hl = 0
               THEN [parser |-> p1, done |-> TRUE, tok |-> Tok("StrLiteral")]
               ELSE IF /\ p1.next_item # None
                       /\ v[p1.next_item + 1].token = "Hash"
                       /\ hl = Len(v[p1.next_item + 1].text)
                    THEN [parser |-> VecParserNext(v, p1), done |-> TRUE,
                          tok |-> Tok("StrLiteral")]
                    ELSE go(p1)
          [] cur \in {"None", "NewLine"} ->
               [parser |-> p1, done |-> TRUE, tok |-> unclosed_string_literal]
          [] OTHER -> go(p1)

\* the end of the input does not end the loop
StringIterationIgnoresEnd(v, p, raw, hl) ==
    LET p1 == VecParserNext(v, p)
        cur == current_token(v, p1)
        go(q) == [parser |-> q, done |-> FALSE, tok |-> Tok("Other")]
    IN  CASE cur = "BackSlash" /\ ~raw -> go(VecParserNext(v, p1))
          [] cur = "StrDelimiter" ->
               IF hl = 0
               THEN [parser |-> p1, done |-> TRUE, tok |-> Tok("StrLiteral")]
               ELSE IF /\ p1.next_item # None
                       /\ v[p1.next_item + 1].token = "Hash"
                       /\ hl = Len(v[p1.next_item + 1].text)
                    THEN [parser |-> VecParserNext(v, p1), done |-> TRUE,
                          tok |-> Tok("StrLiteral")]
                    ELSE go(p1)
          [] OTHER -> go(p1)

StringIteration(v, p, raw, hl) ==
    LET p1 == VecParserNext(v, p)
        cur == current_token(v, p1)
        go(q) == [parser |-> q, done |-> FALSE, tok |-> Tok("Other")]
    IN  CASE cur = "BackSlash" /\ ~raw -> go(VecParserNext(v, p1))
          [] cur = "StrDelimiter" ->
               IF hl = 0
               THEN [parser |-> p1, done |-> TRUE, tok |-> Tok("StrLiteral")]
               ELSE IF /\ p1.next_item # None
                       /\ v[p1.next_item + 1].token = "Hash"
                       /\ hl = Len(v[p1.next_item + 1].text)
                    THEN [parser |-> VecParserNext(v, p1), done |-> TRUE,
                          tok |-> Tok("StrLiteral")]
                    ELSE go(p1)
          [] cur = "None" -> [parser |-> p1, done |-> TRUE, tok |-> unclosed_string_literal]
          [] OTHER -> go(p1)

RECURSIVE parse_string_literal(_, _, _, _)
parse_string_literal(v, p, raw, hl) ==
    LET it == StringIteration(v, p, raw, hl)
    IN  IF it.done THEN [parser |-> it.parser, tok |-> it.tok]
        ELSE parse_string_literal(v, it.parser, raw, hl)

\* the string is scanned whether or not a delimiter follows the hashes
RawStringOpeningUnchecked(v, p, hl) ==
    LET p1 == VecParserNext(v, p)
        r == next_if_next_token_is(v, p1, "StrDelimiter")
    IN  [parser |-> IF hl > 0 THEN r.parser ELSE p1, enter |-> TRUE]

\* parse_raw_string_literal up to its call of parse_string_literal:
\* enter tells whether that call is made
RawStringOpening(v, p, hl) ==
    LET p1 == VecParserNext(v, p)
        r == next_if_next_token_is(v, p1, "StrDelimiter")
    IN  IF hl > 0 /\ ~r.taken
        THEN [parser |-> p1, enter |-> FALSE]
        ELSE [parser |-> IF hl > 0 THEN r.parser ELSE p1, enter |-> TRUE]

parse_raw_string_literal(v, p, hl) ==
    LET o == RawStringOpening(v, p, hl)
    IN  IF o.enter THEN parse_string_literal(v, o.parser, TRUE, hl)
        ELSE [parser |-> o.parser, tok |-> invalid_raw_string_literal]

\* a prefix followed by any span opens a string
PossibleStringArmAlwaysOpens(v, p) ==
    IF p.next_item = None THEN [arm |-> "Other", hl |-> 0]
    ELSE LET s == v[p.next_item + 1]
         IN  CASE s.token = "Hash" -> [arm |-> "Raw", hl |-> Len(s.text)]
               [] OTHER -> [arm |-> "Raw", hl |-> 0]

\* parse_possible_string_literal: "Hash", "StrDelimiter" or "Other" arm,
\* with the hash_len it passes on
PossibleStringArm(v, p) ==
    IF p.next_item = None THEN [arm |-> "Other", hl |-> 0]
    ELSE LET s == v[p.next_item + 1]
         IN  CASE s.token = "Hash" -> [arm |-> "Raw", hl |-> Len(s.text)]
               [] s.token = "StrDelimiter" -> [arm |-> "Raw", hl |-> 0]
               [] OTHER -> [arm |-> "Other", hl |-> 0]

parse_possible_string_literal(v, p) ==
    LET a == PossibleStringArm(v, p)
    IN  IF a.arm = "Raw" THEN parse_raw_string_literal(v, p, a.hl)
        ELSE [parser |-> p, tok |-> Tok("Other")]

\* a nested opener does not raise the level
CommentIterationFlat(v, p, lvl) ==
    LET p1 == advance_and_parse_until(v, p,
                  {"None", "BeginMultiLineComment", "EndMultiLineComment"})
        cur == current_token(v, p1)
    IN  CASE cur = "BeginMultiLineComment" ->
               [parser |-> p1, level |-> lvl, done |-> FALSE, tok |-> Tok("Other")]
          [] cur = "EndMultiLineComment" ->
               [parser |-> p1, level |-> lvl - 1, done |-> (lvl - 1 = 0),
                tok |-> Tok("MultiLineComment")]
          [] OTHER ->
               [parser |-> p1, level |-> lvl, done |-> TRUE,
                tok |-> unclosed_multi_line_comment(lvl)]

\* the message counts the nested levels only, not the outermost one
CommentIterationReportsNested(v, p, lvl) ==
    LET p1 == advance_and_parse_until(v, p,
                  {"None", "BeginMultiLineComment", "EndMultiLineComment"})
        cur == current_token(v, p1)
    IN  CASE cur = "BeginMultiLineComment" ->
               [parser |-> p1, level |-> lvl + 1, done |-> FALSE, tok |-> Tok("Other")]
          [] cur = "EndMultiLineComment" ->
               [parser |-> p1, level |-> lvl - 1, done |-> (lvl - 1 = 0),
                tok |-> Tok("MultiLineComment")]
          [] OTHER ->
               [parser |-> p1, level |-> lvl, done |-> TRUE,
                tok |-> unclosed_multi_line_comment(lvl - 1)]

\* one iteration of the loop of parse_multi_line_comment
CommentIteration(v, p, lvl) ==
    LET p1 == advance_and_parse_until(v, p,
                  {"None", "BeginMultiLineComment", "EndMultiLineComment"})
        cur == current_token(v, p1)
    IN  CASE cur = "BeginMultiLineComment" ->
               [parser |-> p1, level |-> lvl + 1, done |-> FALSE, tok |-> Tok("Other")]
          [] cur = "EndMultiLineComment" ->
               [parser |-> p1, level |-> lvl - 1, done |-> (lvl - 1 = 0),
                tok |-> Tok("MultiLineComment")]
          [] OTHER ->
               [parser |-> p1, level |-> lvl, done |-> TRUE,
                tok |-> unclosed_multi_line_comment(lvl)]

RECURSIVE MultiLineCommentLoop(_, _, _)
MultiLineCommentLoop(v, p, lvl) ==
    LET it == CommentIteration(v, p, lvl)
    IN  IF it.done THEN [parser |-> it.parser, tok |-> it.tok]
        ELSE MultiLineCommentLoop(v, it.parser, it.level)

parse_multi_line_comment(v, p) == MultiLineCommentLoop(v, p, 1)

\* result.push(Sequence { token, text }) with text = parser.parsed_str()
Push(t, p, result, tok) ==
    Append(result, [token |-> tok.token, n |-> tok.n, reason |-> tok.reason,
                    text |-> VecParserParsedStr(t, p),
                    start |-> p.start_index])

\* one iteration of the loop of parse_level_three_tokens
LevelThreeIteration(t, v, p, result) ==
    LET p0 == VecParserBeginParsing(v, p)
        s == v[p0.current_item + 1]
        r == CASE s.token = "BeginMultiLineComment" -> parse_multi_line_comment(v, p0)
               [] s.token = "BeginSingleLineComment" -> parse_single_line_comment(v, p0)
               [] s.token = "CharDelimiter" -> parse_char_literal_or_elison(v, p0)
               [] s.token = "EndMultiLineComment" ->
                    [parser |-> p0, tok |-> multi_line_comment_without_beggining]
               [] s.token = "StrDelimiter" -> parse_string_literal(v, p0, FALSE, 0)
               [] s.token = "StrPrefix" -> parse_possible_string_literal(v, p0)
               [] OTHER -> [parser |-> p0, tok |-> TokenFrom(s)]
    IN  [parser |-> r.parser, result |-> Push(t, r.parser, result, r.tok)]

RECURSIVE LevelThreeLoop(_, _, _, _)
LevelThreeLoop(t, v, p, result) ==
    IF p.next_item = None THEN result
    ELSE LET it == LevelThreeIteration(t, v, p, result)
         IN  LevelThreeLoop(t, v, it.parser, it.result)

parse_level_three_tokens(t, sequences) ==
    LevelThreeLoop(t, sequences, VecParserNew(sequences), <<>>)

parse(t) ==
    parse_level_three_tokens(t, parse_level_two_tokens(t, parse_level_one_tokens(t)))

(***************************************************************************)
(* The run of parse(text) as a state machine: one action per iteration of  *)
(* a loop of the three passes.                                             *)
(***************************************************************************)
(***************************************************************************)
(* parse_spaces of src/src/main.rs, the splitter main runs on every file.  *)
(* Its tokens are "Space", "Other" and "None"; a Sequence is a record      *)
(* [token, text].                                                          *)
(***************************************************************************)
\* char::is_whitespace on the one-byte characters that a TLA+ string can
\* spell
WhiteSpace == {" ", "\t", "\n", "\f", "\r"}
is_whitespace(c) == c \in WhiteSpace

\* the slice stops at end_index, its last character left out
SpacesPushExclusive(t, sp) ==
    Append(sp.result,
           [token |-> sp.last_token, text |-> Slice(t, sp.start_index, sp.end_index)])

\* result.push(Sequence { token: last_token, text: &text[start_index..end_index + 1] })
SpacesPush(t, sp) ==
    Append(sp.result,
           [token |-> sp.last_token, text |-> Slice(t, sp.start_index, sp.end_index + 1)])

\* the body of the for loop for the pair (i, c) that char_indices yields
SpacesIteration(t, sp) ==
    LET i == sp.i
        c == t[i + 1]
        token == IF is_whitespace(c) THEN "Space" ELSE "Other"
    IN  IF token = sp.last_token
        THEN [sp EXCEPT !.end_index = i, !.i = i + 1]
        ELSE [sp EXCEPT !.result = IF token # "None" THEN SpacesPush(t, sp) ELSE @,
                        !.last_token = token,
                        !.start_index = i,
                        !.end_index = i,
                        !.i = i + 1]

\* the push that follows the loop
SpacesLastPush(t, sp) ==
    IF sp.last_token # "None" THEN [sp EXCEPT !.result = SpacesPush(t, sp)] ELSE sp

\* parse_spaces: the locals before the loop
SpacesNew ==
    [i |-> 0, last_token |-> "None", start_index |-> 0, end_index |-> 0, result |-> <<>>]

InitOn(S) ==
    /\ text \in S
    /\ pc = "pass1"
    /\ parser1 = StrParserNew(text)
    /\ result1 = <<>>
    /\ parser2 = VecParserNew(<<>>)
    /\ line_number = 1
    /\ result2 = <<>>
    /\ parser3 = VecParserNew(<<>>)
    /\ result3 = <<>>
    /\ level = 0
    /\ raw_string = FALSE
    /\ hash_len = 0
    /\ returned = <<>>
    /\ spaces = SpacesNew

Init == InitOn(Inputs)
InitComment == InitOn(CommentInputs)
InitRaw == InitOn(RawInputs)
InitEsc == InitOn(EscInputs)
InitChar == InitOn(CharInputs)
InitPrefix == InitOn(PrefixInputs)
InitWord == InitOn(WordInputs)
InitFair == InitOn(FairInputs)
InitNewLine == InitOn(NewLineInputs)
InitTable == InitOn(TableInputs)
InitCharEsc == InitOn(CharEscInputs)
InitLine == InitOn(LineInputs)

\* parse_level_one_tokens: an iteration of the while loop
LevelOneStep ==
    /\ pc = "pass1"
    /\ parser1.current_item # None
    /\ LET it == LevelOneIteration(text, parser1, result1)
       IN  parser1' = it.parser /\ result1' = it.result
    /\ UNCHANGED <<text, pc, parser2, line_number, result2, parser3, result3,
                   level, raw_string, hash_len, returned, spaces>>

\* parse_level_one_tokens returns and parse_level_two_tokens begins
\* line_number is a counter that outlives the call
LevelOneReturnKeepsCounter ==
    /\ pc = "pass1"
    /\ parser1.current_item = None
    /\ pc' = "pass2"
    /\ parser2' = VecParserNew(result1)
    /\ result2' = <<>>
    /\ UNCHANGED <<text, parser1, result1, line_number, parser3, result3, level,
                   raw_string, hash_len, returned, spaces>>

LevelOneReturn ==
    /\ pc = "pass1"
    /\ parser1.current_item = None
    /\ pc' = "pass2"
    /\ parser2' = VecParserNew(result1)
    /\ line_number' = 1
    /\ result2' = <<>>
    /\ UNCHANGED <<text, parser1, result1, parser3, result3, level, raw_string, hash_len,
                   returned, spaces>>

\* parse_level_two_tokens: an iteration of the while loop
LevelTwoStep ==
    /\ pc = "pass2"
    /\ parser2.next_item # None
    /\ LET it == LevelTwoIteration(text, result1, parser2, line_number, result2)
       IN  /\ parser2' = it.parser
           /\ line_number' = it.line_number
           /\ result2' = it.result
    /\ UNCHANGED <<text, pc, parser1, result1, parser3, result3, level, raw_string,
                   hash_len, returned, spaces>>

\* parse_level_two_tokens returns and parse_level_three_tokens begins
LevelTwoReturn ==
    /\ pc = "pass2"
    /\ parser2.next_item = None
    /\ pc' = "pass3"
    /\ parser2' = VecParserBeginParsing(result1, parser2)
    /\ parser3' = VecParserNew(result2)
    /\ result3' = <<>>
    /\ UNCHANGED <<text, parser1, result1, line_number, result2, level, raw_string,
                   hash_len, returned, spaces>>

\* the Sequence begin_parsing hands to the loop body of pass 3
Begun == result2[parser3.next_item + 1]

AtLevelThree(kinds) ==
    /\ pc = "pass3"
    /\ parser3.next_item # None
    /\ Begun.token \in kinds

\* an arm of parse_level_three_tokens that returns its token without a loop
\* of its own, and the push that follows
Returned(r) ==
    /\ parser3' = r.parser
    /\ result3' = Push(text, r.parser, result3, r.tok)
    /\ pc' = "pass3"

Pass12Unchanged ==
    UNCHANGED <<text, parser1, result1, parser2, line_number, result2, returned, spaces>>

\* BeginMultiLineComment: parse_multi_line_comment begins with level = 1
BeginMultiLineComment ==
    /\ AtLevelThree({"BeginMultiLineComment"})
    /\ parser3' = VecParserBeginParsing(result2, parser3)
    /\ level' = 1
    /\ pc' = "comment"
    /\ UNCHANGED <<result3, raw_string, hash_len>>
    /\ Pass12Unchanged

\* parse_multi_line_comment: an iteration of its loop
MultiLineCommentStep ==
    /\ pc = "comment"
    /\ LET it == CommentIteration(result2, parser3, level)
       IN  /\ level' = it.level
           /\ IF it.done THEN Returned(it)
              ELSE parser3' = it.parser /\ UNCHANGED <<result3, pc>>
    /\ UNCHANGED <<raw_string, hash_len>>
    /\ Pass12Unchanged

BeginSingleLineComment ==
    /\ AtLevelThree({"BeginSingleLineComment"})
    /\ Returned(parse_single_line_comment(result2, VecParserBeginParsing(result2, parser3)))
    /\ UNCHANGED <<level, raw_string, hash_len>>
    /\ Pass12Unchanged

CharDelimiter ==
    /\ AtLevelThree({"CharDelimiter"})
    /\ Returned(parse_char_literal_or_elison(result2, VecParserBeginParsing(result2, parser3)))
    /\ UNCHANGED <<level, raw_string, hash_len>>
    /\ Pass12Unchanged

\* the closer falls through to the arm `other => Token::from(other)`
EndMultiLineCommentAsOther ==
    /\ AtLevelThree({"EndMultiLineComment"})
    /\ Returned([parser |-> VecParserBeginParsing(result2, parser3),
                 tok |-> TokenFrom(Begun)])
    /\ UNCHANGED <<level, raw_string, hash_len>>
    /\ Pass12Unchanged

EndMultiLineComment ==
    /\ AtLevelThree({"EndMultiLineComment"})
    /\ Returned([parser |-> VecParserBeginParsing(result2, parser3),
                 tok |-> multi_line_comment_without_beggining])
    /\ UNCHANGED <<level, raw_string, hash_len>>
    /\ Pass12Unchanged

\* StrDelimiter: parse_string_literal(parser, false, 0) begins
StrDelimiter ==
    /\ AtLevelThree({"StrDelimiter"})
    /\ parser3' = VecParserBeginParsing(result2, parser3)
    /\ raw_string' = FALSE
    /\ hash_len' = 0
    /\ pc' = "string"
    /\ UNCHANGED <<result3, level>>
    /\ Pass12Unchanged

\* a prefixed string without hashes is scanned with raw_string = false
StrPrefixEscapes ==
    /\ AtLevelThree({"StrPrefix"})
    /\ LET p0 == VecParserBeginParsing(result2, parser3)
           a == PossibleStringArm(result2, p0)
           o == RawStringOpening(result2, p0, a.hl)
       IN  IF a.arm = "Other"
           THEN Returned([parser |-> p0, tok |-> Tok("Other")])
                /\ UNCHANGED <<raw_string, hash_len>>
           ELSE IF o.enter
           THEN /\ parser3' = o.parser
                /\ raw_string' = (a.hl > 0)
                /\ hash_len' = a.hl
                /\ pc' = "string"
                /\ UNCHANGED result3
           ELSE Returned([parser |-> o.parser, tok |-> invalid_raw_string_literal])
                /\ UNCHANGED <<raw_string, hash_len>>
    /\ UNCHANGED level
    /\ Pass12Unchanged

\* StrPrefix: parse_possible_string_literal, up to the call of
\* parse_string_literal when it is made
StrPrefix ==
    /\ AtLevelThree({"StrPrefix"})
    /\ LET p0 == VecParserBeginParsing(result2, parser3)
           a == PossibleStringArm(result2, p0)
           o == RawStringOpening(result2, p0, a.hl)
       IN  IF a.arm = "Other"
           THEN Returned([parser |-> p0, tok |-> Tok("Other")])
                /\ UNCHANGED <<raw_string, hash_len>>
           ELSE IF o.enter
           THEN /\ parser3' = o.parser
                /\ raw_string' = TRUE
                /\ hash_len' = a.hl
                /\ pc' = "string"
                /\ UNCHANGED result3
           ELSE Returned([parser |-> o.parser, tok |-> invalid_raw_string_literal])
                /\ UNCHANGED <<raw_string, hash_len>>
    /\ UNCHANGED level
    /\ Pass12Unchanged

\* parse_string_literal: an iteration of its loop
StringLiteralStep ==
    /\ pc = "string"
    /\ LET it == StringIteration(result2, parser3, raw_string, hash_len)
       IN  IF it.done THEN Returned(it)
           ELSE parser3' = it.parser /\ UNCHANGED <<result3, pc>>
    /\ UNCHANGED <<level, raw_string, hash_len>>
    /\ Pass12Unchanged

\* the arm `other => Token::from(other)`
OtherToken ==
    /\ AtLevelThree({"BackSlash", "Hash", "NewLine", "Other", "Word"})
    /\ Returned([parser |-> VecParserBeginParsing(result2, parser3),
                 tok |-> TokenFrom(Begun)])
    /\ UNCHANGED <<level, raw_string, hash_len>>
    /\ Pass12Unchanged

\* parse_level_three_tokens returns
LevelThreeReturn ==
    /\ pc = "pass3"
    /\ parser3.next_item = None
    /\ pc' = "done"
    /\ parser3' = VecParserBeginParsing(result2, parser3)
    /\ UNCHANGED <<result3, level, raw_string, hash_len>>
    /\ Pass12Unchanged

\* parse returns its result to its caller, which calls it on a further
\* text: the result joins the history, the passes start over on the new
\* text, and the locals of the functions that have not been entered yet keep
\* what the last call left in them until their declarations assign them
Call ==
    /\ pc = "done"
    /\ text \in CallInputs
    /\ Len(returned) + 1 < MaxCalls
    /\ returned' = Append(returned, [text |-> text, result |-> result3])
    /\ text' \in CallInputs
    /\ pc' = "pass1"
    /\ parser1' = StrParserNew(text')
    /\ result1' = <<>>
    /\ parser2' = VecParserNew(<<>>)
    /\ result2' = <<>>
    /\ parser3' = VecParserNew(<<>>)
    /\ result3' = <<>>
    /\ UNCHANGED <<line_number, level, raw_string, hash_len, spaces>>

Next ==
    \/ LevelOneStep
    \/ LevelOneReturn
    \/ LevelTwoStep
    \/ LevelTwoReturn
    \/ BeginMultiLineComment
    \/ MultiLineCommentStep
    \/ BeginSingleLineComment
    \/ CharDelimiter
    \/ EndMultiLineComment
    \/ StrDelimiter
    \/ StrPrefix
    \/ StringLiteralStep
    \/ OtherToken
    \/ LevelThreeReturn
    \/ Call

Spec == Init /\ [][Next]_vars
SpecComment == InitComment /\ [][Next]_vars
SpecRaw == InitRaw /\ [][Next]_vars
SpecEsc == InitEsc /\ [][Next]_vars
SpecChar == InitChar /\ [][Next]_vars
SpecPrefix == InitPrefix /\ [][Next]_vars
SpecWord == InitWord /\ [][Next]_vars

\* the pipeline is synchronous and runs to completion: a step that can be
\* taken is taken
SpecFair == InitFair /\ [][Next]_vars /\ WF_vars(Next)
SpecNewLine == InitNewLine /\ [][Next]_vars
SpecTable == InitTable /\ [][Next]_vars
SpecCharEsc == InitCharEsc /\ [][Next]_vars
SpecLine == InitLine /\ [][Next]_vars

Done == pc = "done"

\* the stepwise run and the function parse agree
StepwiseIsParse == Done => result3 = parse(text)

(***************************************************************************)
(* Vocabulary of the properties                                            *)
(***************************************************************************)
RECURSIVE ConcatText(_)
ConcatText(seqs) ==
    IF seqs = <<>> THEN <<>> ELSE Head(seqs).text \o ConcatText(Tail(seqs))

EndOf(s) == s.start + Len(s.text)

\* the spans are contiguous from offset 0 to the end of t and spell t
Covers(seqs, t) ==
    /\ seqs = <<>> => t = <<>>
    /\ seqs # <<>> => seqs[1].start = 0 /\ EndOf(seqs[Len(seqs)]) = Len(t)
    /\ \A i \in 1..(Len(seqs) - 1) : seqs[i + 1].start = EndOf(seqs[i])
    /\ \A i \in 1..Len(seqs) : seqs[i].text # <<>>
    /\ ConcatText(seqs) = t

PassOneDone == pc # "pass1"
PassTwoDone == pc \notin {"pass1", "pass2"}

\* positions in result2 of the first and the last span a final token covers
FirstSpan(tk) == CHOOSE i \in 1..Len(result2) : result2[i].start = tk.start
LastSpan(tk) == CHOOSE i \in 1..Len(result2) : EndOf(result2[i]) = EndOf(tk)
NSpans(tk) == LastSpan(tk) - FirstSpan(tk) + 1
Kind(i) == IF i \in 1..Len(result2) THEN result2[i].token ELSE "None"

Tokens == 1..Len(result3)
IsInvalid(tk, reason) == tk.token = "Invalid" /\ tk.reason = reason
ToEndOfInput(tk) == EndOf(tk) = Len(text)

\* parse_spaces: an iteration of the for loop
SpacesStep ==
    /\ pc = "spaces"
    /\ spaces.i < Len(text)
    /\ spaces' = SpacesIteration(text, spaces)
    /\ UNCHANGED <<text, pc, parser1, result1, parser2, line_number, result2, parser3,
                   result3, level, raw_string, hash_len, returned>>

\* parse_spaces: the loop is over, the last run is pushed and result returned
SpacesReturn ==
    /\ pc = "spaces"
    /\ spaces.i = Len(text)
    /\ spaces' = SpacesLastPush(text, spaces)
    /\ pc' = "spaces_done"
    /\ UNCHANGED <<text, parser1, result1, parser2, line_number, result2, parser3,
                   result3, level, raw_string, hash_len, returned>>

InitSpaces ==
    /\ text \in SpaceInputs
    /\ pc = "spaces"
    /\ spaces = SpacesNew
    /\ parser1 = StrParserNew(text)
    /\ result1 = <<>>
    /\ parser2 = VecParserNew(<<>>)
    /\ line_number = 1
    /\ result2 = <<>>
    /\ parser3 = VecParserNew(<<>>)
    /\ result3 = <<>>
    /\ level = 0
    /\ raw_string = FALSE
    /\ hash_len = 0
    /\ returned = <<>>

NextSpaces ==
    \/ SpacesStep
    \/ SpacesReturn

SpecSpaces == InitSpaces /\ [][NextSpaces]_vars

(***************************************************************************)
(* Properties                                                              *)
(***************************************************************************)

\* C1: for every input, the texts of the final tokens returned by parse,
\* concatenated in order, are the input itself.
C1_Lossless == Done => ConcatText(result3) = text

\* C1 witness: parse has returned several tokens, one of them Invalid and
\* one of them made of more than one character.
C1_Witness ==
    /\ Done
    /\ Len(result3) >= 2
    /\ \E k \in Tokens : result3[k].token = "Invalid"
    /\ \E k \in Tokens : Len(result3[k].text) >= 2

\* C2: the output of pass 1 and the output of pass 2 each cover the input:
\* the first span starts at offset 0, every span starts where the previous
\* one ends, the last one ends at the end of the input and the spans spell
\* the input.
C2_PassesCover ==
    /\ PassOneDone => Covers(result1, text)
    /\ PassTwoDone => Covers(result2, text)

\* C2 witness: both passes have returned, pass 1 merged a greedy run into
\* one of its spans and pass 2 merged two spans of pass 1 into one of its
\* own.
C2_Witness ==
    /\ PassTwoDone
    /\ Len(result1) >= 3
    /\ Len(result2) >= 2
    /\ Len(result2) < Len(result1)
    /\ \E i \in 1..Len(result1) : Len(result1[i].text) >= 2
    /\ \E i \in 1..Len(result2) : Len(result2[i].text) >= 2

\* the tokens of a text scanned from offset off of a longer text, after nl
\* line feeds
Shifted(tokens, off, nl) ==
    [i \in 1..Len(tokens) |->
        [tokens[i] EXCEPT !.start = @ + off,
                          !.n = IF tokens[i].token = "NewLine" THEN @ + nl ELSE @]]

\* C3: after every Invalid token the next token starts at the byte that
\* follows the Invalid token's text, and the tokens after it are the tokens
\* parse returns for the rest of the input scanned on its own, their NewLine
\* numbers raised by the line feeds that precede.
C3_ErrorsAreLocal ==
    Done =>
        \A k \in Tokens :
            result3[k].token = "Invalid" =>
                LET off == EndOf(result3[k])
                IN  /\ k < Len(result3) => result3[k + 1].start = off
                    /\ SubSeq(result3, k + 1, Len(result3))
                         = Shifted(parse(Slice(text, off, Len(text))), off,
                                   CountNewLines(Slice(text, 0, off), "\n"))

\* C3 witness: an Invalid token that holds a line feed is followed by a
\* literal or a comment and by a NewLine token.
C3_Witness ==
    /\ Done
    /\ \E k \in Tokens :
        /\ result3[k].token = "Invalid"
        /\ "\n" \in {result3[k].text[i] : i \in 1..Len(result3[k].text)}
        /\ \E j \in (k + 1)..Len(result3) :
              result3[j].token \in {"StrLiteral", "CharLiteral", "MultiLineComment",
                                    "SingleLineComment"}
        /\ \E j \in (k + 1)..Len(result3) : result3[j].token = "NewLine"

\* positions in result3 of the NewLine tokens, and the NewLine token that
\* precedes token k (0 when there is none)
NewLineTokens == {k \in Tokens : result3[k].token = "NewLine"}
PrevNewLine(k) ==
    IF \E j \in NewLineTokens : j < k
    THEN CHOOSE j \in NewLineTokens : j < k /\ \A i \in NewLineTokens : i < k => i <= j
    ELSE 0
PrevLineNumber(k) == IF PrevNewLine(k) = 0 THEN 1 ELSE result3[PrevNewLine(k)].n
PrevNewLineEnd(k) == IF PrevNewLine(k) = 0 THEN 0 ELSE EndOf(result3[PrevNewLine(k)])
LineFeeds(s) == CountNewLines(s, "\n")

\* C4 as stated: the NewLine numbers of the final tokens never decrease, and
\* each exceeds the previous emitted NewLine number (1 for the first) by the
\* number of line feeds of its own span.
C4_StepIsOwnSpan ==
    Done =>
        \A k \in NewLineTokens :
            /\ result3[k].n >= PrevLineNumber(k)
            /\ result3[k].n = PrevLineNumber(k) + LineFeeds(result3[k].text)

\* C4 amended: the NewLine numbers of the final tokens never decrease, and
\* each exceeds the previous emitted NewLine number (1 for the first) by the
\* number of line feeds of the input from the end of that previous NewLine
\* token (the start of the input for the first) to the end of its own span:
\* those of its own span and those inside the tokens emitted in between.
C4_StepIsLineFeedsSincePrevious ==
    Done =>
        \A k \in NewLineTokens :
            /\ result3[k].n >= PrevLineNumber(k)
            /\ result3[k].n = PrevLineNumber(k)
                  + LineFeeds(Slice(text, PrevNewLineEnd(k), EndOf(result3[k])))

\* C4 witness: a NewLine token follows a NewLine token with a comment that
\* holds a line feed between the two.
C4_Witness ==
    /\ Done
    /\ \E k \in NewLineTokens :
        /\ PrevNewLine(k) # 0
        /\ result3[k].n > PrevLineNumber(k) + LineFeeds(result3[k].text)
        /\ \E j \in (PrevNewLine(k) + 1)..(k - 1) : result3[j].token = "MultiLineComment"

\* openers minus closers among the spans i..m of result2
Openers(i, m) == {j \in i..m : Kind(j) = "BeginMultiLineComment"}
Closers(i, m) == {j \in i..m : Kind(j) = "EndMultiLineComment"}
Balance(i, m) == Cardinality(Openers(i, m)) - Cardinality(Closers(i, m))

\* the spans at which the comment opened by span i is balanced
Balanced(i) == {j \in i..Len(result2) : Balance(i, j) = 0}
FirstBalanced(i) == CHOOSE j \in Balanced(i) : \A m \in Balanced(i) : j <= m

\* the opener of the comment being scanned, and the span under the cursor
OpenerSpan == CHOOSE i \in 1..Len(result2) : result2[i].start = parser3.start_index
CursorSpan == parser3.current_item + 1

StartsWith(tk, kind) == Kind(FirstSpan(tk)) = kind

UnclosedComment == "Multiline comment not closed (n level(s) unclosed)."
EndWithoutBeginning == "Multiline end comment detected without a beginning."
UnclosedString == "Unclosed string literal"

\* C5: while a block comment is scanned its counter is 1 for the opener,
\* plus the openers and minus the closers met since, and stays above 0; the
\* counter is never below 0; a token that starts at a block-comment opener
\* after which the count comes back to 0 is one MultiLineComment that runs
\* from the opener through the first closer at which the count is 0, and
\* every MultiLineComment token is such a token; `/* a /* b */ c */` is one
\* MultiLineComment.
C5_NestedComment ==
    /\ level >= 0
    /\ Done /\ text = NestExample =>
          Len(result3) = 1 /\ result3[1].token = "MultiLineComment"
    /\ pc = "comment" =>
          /\ Kind(OpenerSpan) = "BeginMultiLineComment"
          /\ level = Balance(OpenerSpan, CursorSpan)
          /\ level >= 1
    /\ \A k \in Tokens :
          LET tk == result3[k]
              i == FirstSpan(tk)
          IN  /\ StartsWith(tk, "BeginMultiLineComment") /\ Balanced(i) # {} =>
                    /\ tk.token = "MultiLineComment"
                    /\ LastSpan(tk) = FirstBalanced(i)
              /\ tk.token = "MultiLineComment" =>
                    /\ StartsWith(tk, "BeginMultiLineComment")
                    /\ Balanced(i) # {}

\* C5 witness: a MultiLineComment token that holds a nested comment has been
\* emitted.
C5_Witness ==
    \E k \in Tokens :
        /\ result3[k].token = "MultiLineComment"
        /\ Cardinality(Openers(FirstSpan(result3[k]), LastSpan(result3[k]))) >= 2

\* C6: a token that starts at a block-comment opener after which the count
\* of openers minus closers never comes back to 0 is an Invalid token that
\* runs to the end of the input and reports n levels unclosed, n being the
\* openers (the first included) minus the closers up to the end of the
\* input, at least 1; and every token with that reason is such a token.
C6_UnclosedComment ==
    \A k \in Tokens :
        LET tk == result3[k]
            i == FirstSpan(tk)
        IN  /\ StartsWith(tk, "BeginMultiLineComment") /\ Balanced(i) = {} =>
                  /\ IsInvalid(tk, UnclosedComment)
                  /\ tk.n = Balance(i, Len(result2))
                  /\ tk.n >= 1
                  /\ ToEndOfInput(tk)
            /\ IsInvalid(tk, UnclosedComment) =>
                  /\ StartsWith(tk, "BeginMultiLineComment")
                  /\ Balanced(i) = {}

\* C6 witness: an unclosed comment that holds a closer is reported with two
\* levels or more unclosed.
C6_Witness ==
    \E k \in Tokens :
        /\ IsInvalid(result3[k], UnclosedComment)
        /\ result3[k].n >= 2
        /\ Closers(FirstSpan(result3[k]), Len(result2)) # {}

\* C7: a token that starts at a block-comment closer, which is a closer met
\* outside any construct, is an Invalid token (end comment without a
\* beginning) whose text is that closer alone, and the next token starts at
\* the span that follows the closer.
C7_EndWithoutBeginning ==
    \A k \in Tokens :
        LET tk == result3[k]
        IN  StartsWith(tk, "EndMultiLineComment") =>
                /\ IsInvalid(tk, EndWithoutBeginning)
                /\ tk.text = <<"*", "/">>
                /\ NSpans(tk) = 1
                /\ k < Len(result3) => FirstSpan(result3[k + 1]) = FirstSpan(tk) + 1
                /\ Done /\ FirstSpan(tk) < Len(result2) => k < Len(result3)

\* C7 witness: after a closed comment a closer is emitted as Invalid and
\* another token follows it.
C7_Witness ==
    \E k \in Tokens :
        /\ IsInvalid(result3[k], EndWithoutBeginning)
        /\ k < Len(result3)
        /\ \E j \in 1..(k - 1) : result3[j].token = "MultiLineComment"

SpanLen(i) == Len(result2[i].text)
MinOf(S) == CHOOSE j \in S : \A m \in S : j <= m

\* span i opens a raw string: a prefix, a run of hashes and a delimiter
RawOpener(i) ==
    /\ Kind(i) = "StrPrefix"
    /\ Kind(i + 1) = "Hash"
    /\ Kind(i + 2) = "StrDelimiter"

\* the delimiters of the body that are followed by a run of hashes as long
\* as the run of the opener
RawClosers(i) ==
    {j \in (i + 3)..Len(result2) :
        /\ Kind(j) = "StrDelimiter"
        /\ Kind(j + 1) = "Hash"
        /\ SpanLen(j + 1) = SpanLen(i + 1)}

\* C8: a token that starts at a prefix followed by a run of k > 0 hashes and
\* a string delimiter is a StrLiteral that ends with the first later string
\* delimiter directly followed by a Hash span of length k, that Hash span
\* included; when no later delimiter is followed by such a span it is
\* Invalid (unclosed string literal) and runs to the end of the input.
\* `r#"a"#` and `r##"a"#"##` are one StrLiteral each and `r#"a"` is Invalid.
C8_RawStringCloser ==
    /\ \A k \in Tokens :
        LET tk == result3[k]
            i == FirstSpan(tk)
        IN  RawOpener(i) =>
                IF RawClosers(i) = {}
                THEN IsInvalid(tk, UnclosedString) /\ ToEndOfInput(tk)
                ELSE /\ tk.token = "StrLiteral"
                     /\ LastSpan(tk) = MinOf(RawClosers(i)) + 1
    /\ Done /\ text \in {RawExampleOne, RawExampleTwo} =>
          Len(result3) = 1 /\ result3[1].token = "StrLiteral"
    /\ Done /\ text = RawExampleUnclosed =>
          Len(result3) = 1 /\ IsInvalid(result3[1], UnclosedString)

\* C8 witness: a raw StrLiteral has been emitted whose body holds a string
\* delimiter followed by a run of hashes of another length.
C8_Witness ==
    \E k \in Tokens :
        LET tk == result3[k]
            i == FirstSpan(tk)
        IN  /\ RawOpener(i)
            /\ tk.token = "StrLiteral"
            /\ \E j \in (i + 3)..(LastSpan(tk) - 2) :
                  /\ Kind(j) = "StrDelimiter"
                  /\ Kind(j + 1) = "Hash"
                  /\ SpanLen(j + 1) # SpanLen(i + 1)

\* span j of the body of the string opened at span i follows a backslash
\* that is not itself skipped
RECURSIVE Skipped(_, _)
Skipped(i, j) ==
    /\ j > i + 1
    /\ Kind(j - 1) = "BackSlash"
    /\ ~Skipped(i, j - 1)

PlainClosers(i) ==
    {j \in (i + 1)..Len(result2) : Kind(j) = "StrDelimiter" /\ ~Skipped(i, j)}

\* C9: a token that starts at a string delimiter is a StrLiteral that ends
\* at the first later string delimiter that is not skipped, a span being
\* skipped when it directly follows a backslash that is not skipped; when
\* there is no such delimiter it is Invalid (unclosed string literal) and
\* runs to the end of the input.  `"a\"b"` is one StrLiteral.
C9_EscapedDelimiter ==
    /\ \A k \in Tokens :
        LET tk == result3[k]
            i == FirstSpan(tk)
        IN  StartsWith(tk, "StrDelimiter") =>
                IF PlainClosers(i) = {}
                THEN IsInvalid(tk, UnclosedString) /\ ToEndOfInput(tk)
                ELSE /\ tk.token = "StrLiteral"
                     /\ LastSpan(tk) = MinOf(PlainClosers(i))
    /\ Done /\ text = EscExample =>
          Len(result3) = 1 /\ result3[1].token = "StrLiteral"

\* C9 witness: a StrLiteral opened by a bare delimiter has been emitted
\* whose body holds a skipped string delimiter and a skipped backslash.
C9_Witness ==
    \E k \in Tokens :
        LET tk == result3[k]
            i == FirstSpan(tk)
        IN  /\ StartsWith(tk, "StrDelimiter")
            /\ tk.token = "StrLiteral"
            /\ \E j \in (i + 1)..(LastSpan(tk) - 1) :
                  Kind(j) = "StrDelimiter" /\ Skipped(i, j)
            /\ \E j \in (i + 1)..(LastSpan(tk) - 1) :
                  Kind(j) = "BackSlash" /\ Skipped(i, j)

\* C10: a token that starts at a char delimiter followed by a Word or
\* StrPrefix span is a CharLiteral of exactly three spans when the span
\* after the word is a char delimiter, and otherwise, at the end of the
\* input too, a LifetimeElision of exactly two spans.
C10_CharOrLifetime ==
    \A k \in Tokens :
        LET tk == result3[k]
            i == FirstSpan(tk)
        IN  Kind(i) = "CharDelimiter" /\ Kind(i + 1) \in {"Word", "StrPrefix"} =>
                IF Kind(i + 2) = "CharDelimiter"
                THEN tk.token = "CharLiteral" /\ NSpans(tk) = 3
                ELSE tk.token = "LifetimeElision" /\ NSpans(tk) = 2

\* C10 witness: a CharLiteral of a word and a LifetimeElision followed by
\* another token have been emitted.
C10_Witness ==
    /\ Done
    /\ \E k \in Tokens :
          /\ result3[k].token = "CharLiteral"
          /\ Kind(FirstSpan(result3[k]) + 1) \in {"Word", "StrPrefix"}
    /\ \E k \in Tokens : result3[k].token = "LifetimeElision" /\ k < Len(result3)

\* the token that follows token k is made of the one span that follows
\* span i, and is an Other token
NextIsOther(k, i) ==
    /\ FirstSpan(result3[k + 1]) = i + 1
    /\ NSpans(result3[k + 1]) = 1
    /\ result3[k + 1].token = "Other"

NotOpener(i) == Kind(i) = "StrPrefix" /\ Kind(i + 1) \notin {"Hash", "StrDelimiter"}

\* C11 as stated: a token that starts at a prefix not followed by a Hash or
\* string-delimiter span is an Other token of the prefix alone, and the span
\* that follows the prefix is emitted as an Other token of its own whatever
\* its kind.
C11_FollowerIsOther ==
    \A k \in Tokens :
        LET tk == result3[k]
            i == FirstSpan(tk)
        IN  NotOpener(i) =>
                /\ tk.token = "Other" /\ NSpans(tk) = 1
                /\ k < Len(result3) => NextIsOther(k, i)

\* C11 amended: a token that starts at a prefix not followed by a Hash or
\* string-delimiter span is an Other token of the prefix alone; the span
\* that follows is not consumed and starts the next token, which is an Other
\* token of that span alone when the span is a Word, BackSlash or Other span.
C11_FollowerIsScanned ==
    \A k \in Tokens :
        LET tk == result3[k]
            i == FirstSpan(tk)
        IN  NotOpener(i) =>
                /\ tk.token = "Other" /\ NSpans(tk) = 1
                /\ k < Len(result3) => FirstSpan(result3[k + 1]) = i + 1
                /\ Done /\ i < Len(result2) => k < Len(result3)
                /\ k < Len(result3) /\ Kind(i + 1) \in {"Word", "BackSlash", "Other"} =>
                      NextIsOther(k, i)

\* C11 witness: a prefix followed by a span that opens nothing has been
\* emitted as two Other tokens, and a prefix followed by another span as an
\* Other token and a token that is not Other.
C11_Witness ==
    /\ \E k \in Tokens :
          /\ NotOpener(FirstSpan(result3[k]))
          /\ k < Len(result3)
          /\ NextIsOther(k, FirstSpan(result3[k]))
    /\ \E k \in Tokens :
          /\ NotOpener(FirstSpan(result3[k]))
          /\ k < Len(result3)
          /\ result3[k + 1].token # "Other"

\* span i is a prefix directly followed by a string delimiter
PrefixedOpener(i) == Kind(i) = "StrPrefix" /\ Kind(i + 1) = "StrDelimiter"

\* the string delimiters after span i
LaterDelimiters(i) == {j \in (i + 1)..Len(result2) : Kind(j) = "StrDelimiter"}

\* the token ends at the first span of S, or is an unclosed string literal
\* that runs to the end of the input when S is empty
ClosesAtFirstOf(tk, S) ==
    IF S = {}
    THEN IsInvalid(tk, UnclosedString) /\ ToEndOfInput(tk)
    ELSE tk.token = "StrLiteral" /\ LastSpan(tk) = MinOf(S)

\* C12 as stated: in every string scanned with hash_len = 0, a string opened
\* by a prefix directly followed by a string delimiter included, the span
\* after a backslash is skipped, so the literal ends at the first string
\* delimiter that is not skipped.
C12_PrefixedStringEscapes ==
    \A k \in Tokens :
        LET tk == result3[k]
            i == FirstSpan(tk)
        IN  /\ StartsWith(tk, "StrDelimiter") => ClosesAtFirstOf(tk, PlainClosers(i))
            /\ PrefixedOpener(i) => ClosesAtFirstOf(tk, PlainClosers(i + 1))

\* C12 amended: in a string opened by a bare string delimiter the span after
\* a backslash is skipped and the literal ends at the first string delimiter
\* that is not skipped; in a string opened by a prefix directly followed by
\* a string delimiter nothing is skipped and the literal ends at the first
\* later string delimiter, directly after a backslash or not.
C12_PrefixedStringIsRaw ==
    \A k \in Tokens :
        LET tk == result3[k]
            i == FirstSpan(tk)
        IN  /\ StartsWith(tk, "StrDelimiter") => ClosesAtFirstOf(tk, PlainClosers(i))
            /\ PrefixedOpener(i) => ClosesAtFirstOf(tk, LaterDelimiters(i + 1))

\* C12 witness: a StrLiteral opened by a prefix and a string delimiter has
\* been closed by a string delimiter that directly follows a backslash.
C12_Witness ==
    \E k \in Tokens :
        /\ PrefixedOpener(FirstSpan(result3[k]))
        /\ result3[k].token = "StrLiteral"
        /\ Kind(LastSpan(result3[k]) - 1) = "BackSlash"
        /\ NSpans(result3[k]) >= 4

\* the NewLine spans after span i
LaterNewLines(i) == {j \in (i + 1)..Len(result2) : Kind(j) = "NewLine"}

\* C13: a token that starts at a line-comment opener is one
\* SingleLineComment that ends just before the next NewLine span, or at the
\* end of the input when there is none, whatever spans lie in between; the
\* NewLine span is then a NewLine token of its own.
C13_LineComment ==
    \A k \in Tokens :
        LET tk == result3[k]
            i == FirstSpan(tk)
        IN  StartsWith(tk, "BeginSingleLineComment") =>
                /\ tk.token = "SingleLineComment"
                /\ IF LaterNewLines(i) = {}
                   THEN ToEndOfInput(tk)
                   ELSE /\ LastSpan(tk) = MinOf(LaterNewLines(i)) - 1
                        /\ Done => k < Len(result3)
                        /\ k < Len(result3) =>
                              /\ result3[k + 1].token = "NewLine"
                              /\ FirstSpan(result3[k + 1]) = MinOf(LaterNewLines(i))
                              /\ NSpans(result3[k + 1]) = 1

\* C13 witness: a line comment that holds a string delimiter or a backslash
\* after its opener has been ended by a NewLine span of a carriage return
\* and a line feed, emitted after it as a NewLine token.
C13_Witness ==
    \E k \in Tokens :
        LET tk == result3[k]
        IN  /\ StartsWith(tk, "BeginSingleLineComment")
            /\ tk.token = "SingleLineComment"
            /\ Kind(LastSpan(tk)) \in {"StrDelimiter", "BackSlash"}
            /\ k < Len(result3)
            /\ result3[k + 1].token = "NewLine"
            /\ result3[k + 1].text = <<"\r", "\n">>

UnclosedChar == "Unclosed char or lifetime elision"
InvalidChar == "Invalid char literal"

\* the char delimiters from span i on
CharClosers(i) == {j \in i..Len(result2) : Kind(j) = "CharDelimiter"}

\* the token is a CharLiteral through the first span of S, or an unclosed
\* char literal that runs to the end of the input when S is empty
CharClosesAtFirstOf(tk, S) ==
    IF S = {}
    THEN IsInvalid(tk, UnclosedChar) /\ ToEndOfInput(tk)
    ELSE tk.token = "CharLiteral" /\ LastSpan(tk) = MinOf(S)

\* C14: a token that starts at a char delimiter followed by a backslash
\* skips the span after the backslash and ends at the first char delimiter
\* after the skipped span; one that starts at a char delimiter followed by a
\* string-delimiter or Other span ends at the first char delimiter after
\* that span; it is a CharLiteral, or an unclosed char literal to the end of
\* the input when there is no such delimiter.
C14_CharLiteralBody ==
    \A k \in Tokens :
        LET tk == result3[k]
            i == FirstSpan(tk)
        IN  StartsWith(tk, "CharDelimiter") =>
                /\ Kind(i + 1) = "BackSlash" => CharClosesAtFirstOf(tk, CharClosers(i + 3))
                /\ Kind(i + 1) \in {"StrDelimiter", "Other"} =>
                      CharClosesAtFirstOf(tk, CharClosers(i + 2))

\* C14 witness: a CharLiteral of an escaped char delimiter, whose third span
\* is a skipped char delimiter, and a CharLiteral of an Other span have both
\* been emitted.
C14_Witness ==
    /\ \E k \in Tokens :
          LET i == FirstSpan(result3[k])
          IN  /\ StartsWith(result3[k], "CharDelimiter")
              /\ Kind(i + 1) = "BackSlash" /\ Kind(i + 2) = "CharDelimiter"
              /\ result3[k].token = "CharLiteral"
    /\ \E k \in Tokens :
          LET i == FirstSpan(result3[k])
          IN  /\ StartsWith(result3[k], "CharDelimiter")
              /\ Kind(i + 1) = "Other"
              /\ result3[k].token = "CharLiteral"

\* the pass-2 kinds that can follow a char delimiter in a char literal or a
\* lifetime, and the other kinds
CharBodyKinds == {"BackSlash", "Word", "StrPrefix", "StrDelimiter", "Other"}
NoCharBodyKinds ==
    {"Hash", "NewLine", "CharDelimiter", "BeginSingleLineComment",
     "BeginMultiLineComment", "EndMultiLineComment"}

\* C15: a token that starts at a char delimiter followed by a span that is
\* none of BackSlash, Word, StrPrefix, StrDelimiter and Other (a Hash,
\* NewLine, char delimiter, comment opener or comment closer) is an invalid
\* char literal of exactly the two spans; one that starts at a char
\* delimiter that is the last span is an unclosed char literal of that span.
C15_InvalidCharLiteral ==
    \A k \in Tokens :
        LET tk == result3[k]
            i == FirstSpan(tk)
        IN  StartsWith(tk, "CharDelimiter") =>
                /\ Kind(i + 1) \notin CharBodyKinds \cup {"None"} =>
                      /\ Kind(i + 1) \in NoCharBodyKinds
                      /\ IsInvalid(tk, InvalidChar)
                      /\ NSpans(tk) = 2
                /\ Kind(i + 1) = "None" =>
                      /\ IsInvalid(tk, UnclosedChar)
                      /\ NSpans(tk) = 1

\* C15 witness: an invalid char literal of a char delimiter and one span has
\* been emitted, and after it an unclosed char literal of the last span.
C15_Witness ==
    /\ \E k \in Tokens :
          /\ StartsWith(result3[k], "CharDelimiter")
          /\ IsInvalid(result3[k], InvalidChar)
          /\ Kind(FirstSpan(result3[k]) + 1) \in NoCharBodyKinds \ {"CharDelimiter"}
    /\ \E k \in Tokens :
          /\ StartsWith(result3[k], "CharDelimiter")
          /\ IsInvalid(result3[k], UnclosedChar)
          /\ NSpans(result3[k]) = 1

InvalidRaw == "Invalid raw string literal"

\* C16: a token that starts at a prefix followed by a Hash span that no
\* string delimiter follows is an invalid raw string literal of exactly the
\* prefix and the Hash span, and the span after the Hash span, when there is
\* one, starts the next token.
C16_InvalidRawString ==
    \A k \in Tokens :
        LET tk == result3[k]
            i == FirstSpan(tk)
        IN  /\ StartsWith(tk, "StrPrefix")
            /\ Kind(i + 1) = "Hash"
            /\ Kind(i + 2) # "StrDelimiter"
            => /\ IsInvalid(tk, InvalidRaw)
               /\ NSpans(tk) = 2
               /\ k < Len(result3) => FirstSpan(result3[k + 1]) = i + 2
               /\ Done /\ Kind(i + 2) # "None" => k < Len(result3)

\* C16 witness: an invalid raw string literal of a prefix and a Hash span
\* has been emitted and the span after the Hash span has started the token
\* that follows it.
C16_Witness ==
    \E k \in Tokens :
        /\ StartsWith(result3[k], "StrPrefix")
        /\ IsInvalid(result3[k], InvalidRaw)
        /\ NSpans(result3[k]) = 2
        /\ k < Len(result3)
        /\ FirstSpan(result3[k + 1]) = FirstSpan(result3[k]) + 2

\* C17: a call of parse on a text returns what every earlier call on that
\* text returned, whatever calls were made in between, and pass 2 of every
\* call starts with its line counter at 1.
C17_Deterministic ==
    /\ Done =>
          \A i \in 1..Len(returned) :
              returned[i].text = text => returned[i].result = result3
    /\ pc = "pass2" /\ parser2 = VecParserNew(result1) => line_number = 1

\* C17 witness: parse has returned on a text, then on another text, then on
\* the first text again, a text whose tokens include a numbered NewLine.
C17_Witness ==
    /\ Done
    /\ Len(returned) = 2
    /\ returned[1].text = text
    /\ returned[2].text # text
    /\ returned[2].result # result3
    /\ returned[1].result = result3
    /\ \E k \in Tokens : result3[k].token = "NewLine" /\ result3[k].n >= 2

GreedyClasses == {"Digit", "Hash", "NewLine", "UnderscoreLetter", "Other"}
SingleClasses ==
    {"BackSlash", "ForwardSlash", "Asterisc", "CharDelimiter", "StrDelimiter",
     "LowerCaseB", "LowerCaseR"}

\* C18: in the output of pass 1 a span of a non-greedy class is one
\* character, the characters of a span of a greedy class are all of that
\* class, and no two adjacent spans have the same greedy class.
C18_PassOneSpans ==
    /\ \A i \in 1..Len(result1) :
          LET s == result1[i]
          IN  /\ s.token \in GreedyClasses \cup SingleClasses
              /\ s.token \in SingleClasses => Len(s.text) = 1
              /\ \A j \in 1..Len(s.text) : LevelOneTokenFrom(s.text[j]) = s.token
    /\ \A i \in 1..(Len(result1) - 1) :
          result1[i].token \in GreedyClasses => result1[i + 1].token # result1[i].token
    /\ PassOneDone => Covers(result1, text)

\* C18 witness: pass 1 has returned a greedy span of two characters and two
\* adjacent spans of one non-greedy class.
C18_Witness ==
    /\ PassOneDone
    /\ \E i \in 1..Len(result1) :
          /\ result1[i].token \in GreedyClasses
          /\ Len(result1[i].text) >= 2
    /\ \E i \in 1..(Len(result1) - 1) :
          /\ result1[i].token \in SingleClasses
          /\ result1[i + 1].token = result1[i].token

\* the class of span i of the output of pass 1, "None" past its end
Class(i) == IF i \in 1..Len(result1) THEN result1[i].token ELSE "None"

WordClasses == {"UnderscoreLetter", "Digit", "LowerCaseB", "LowerCaseR"}

\* the number of spans from span i on that a Word extends over
RECURSIVE WordRun(_)
WordRun(i) == IF Class(i) \in WordClasses THEN 1 + WordRun(i + 1) ELSE 0

\* the row of the transition table that matches span i with its lookahead:
\* the tag it yields and the number of spans it consumes
TableRow(i) ==
    LET cur == Class(i)
        nxt == Class(i + 1)
    IN  CASE cur = "ForwardSlash" /\ nxt = "ForwardSlash" ->
               [token |-> "BeginSingleLineComment", width |-> 2]
          [] cur = "ForwardSlash" /\ nxt = "Asterisc" ->
               [token |-> "BeginMultiLineComment", width |-> 2]
          [] cur = "Asterisc" /\ nxt = "ForwardSlash" ->
               [token |-> "EndMultiLineComment", width |-> 2]
          [] cur \in {"ForwardSlash", "Asterisc"}
               /\ ~(cur = "ForwardSlash" /\ nxt \in {"ForwardSlash", "Asterisc"})
               /\ ~(cur = "Asterisc" /\ nxt = "ForwardSlash") ->
               [token |-> "Other", width |-> 1]
          [] cur = "LowerCaseB" /\ nxt = "LowerCaseR" -> [token |-> "StrPrefix", width |-> 2]
          [] cur = "LowerCaseB" /\ nxt # "LowerCaseR" -> [token |-> "StrPrefix", width |-> 1]
          [] cur = "LowerCaseR" -> [token |-> "StrPrefix", width |-> 1]
          [] cur = "UnderscoreLetter" -> [token |-> "Word", width |-> 1 + WordRun(i + 1)]
          [] cur \in {"Hash", "CharDelimiter", "StrDelimiter", "BackSlash"} ->
               [token |-> cur, width |-> 1]
          [] cur = "NewLine" -> [token |-> "NewLine", width |-> 1]
          [] OTHER -> [token |-> "Other", width |-> 1]

\* the line feeds of the spans i..j of the output of pass 1
RECURSIVE LineFeedsOf(_, _)
LineFeedsOf(i, j) ==
    IF i > j THEN 0
    ELSE Cardinality({m \in 1..Len(result1[i].text) : result1[i].text[m] = "\n"})
             + LineFeedsOf(i + 1, j)

\* the table applied left to right from span i on; numbered tells whether
\* a NewLine span yields NewLine with its line number or, as any span
\* without a row of its own, Other
RECURSIVE TableFrom(_, _)
TableFrom(i, numbered) ==
    IF i > Len(result1) THEN <<>>
    ELSE LET row == TableRow(i)
             last == i + row.width - 1
             newline == row.token = "NewLine" /\ numbered
         IN  <<[token |-> IF row.token = "NewLine" /\ ~numbered THEN "Other" ELSE row.token,
                n |-> IF newline THEN 1 + LineFeedsOf(1, last) ELSE 0,
                text |-> SubSeq(text, result1[i].start + 1, EndOf(result1[last])),
                start |-> result1[i].start]>>
                 \o TableFrom(last + 1, numbered)

\* result2 is what the table gives, as far as pass 2 has got
FollowsTable(numbered) ==
    LET table == TableFrom(1, numbered)
    IN  /\ Len(result2) <= Len(table)
        /\ result2 = SubSeq(table, 1, Len(result2))
        /\ PassTwoDone => Len(result2) = Len(table)

\* C19 as stated: the output of pass 2 is the transition table applied left
\* to right, first match wins, on the current span and one span of
\* lookahead, pairs consuming both their spans, where Hash, char delimiter,
\* string delimiter and backslash keep their tag and digits and every other
\* span yield Other.
C19_TableAsStated == PassOneDone => FollowsTable(FALSE)

\* C19 amended: the output of pass 2 is the transition table applied left
\* to right, first match wins, on the current span and one span of
\* lookahead, pairs consuming both their spans, where a NewLine span yields
\* NewLine with its line number, Hash, char delimiter, string delimiter and
\* backslash keep their tag and digits and Other spans yield Other.
C19_TableWithNewLine == PassOneDone => FollowsTable(TRUE)

\* C19 witness: pass 2 has returned a block-comment opener followed by the
\* Other of the slash that follows its asterisk, and a numbered NewLine.
C19_Witness ==
    /\ PassTwoDone
    /\ \E i \in 1..(Len(result2) - 1) :
          /\ Kind(i) = "BeginMultiLineComment"
          /\ Kind(i + 1) = "Other" /\ result2[i + 1].text = <<"/">>
    /\ \E i \in 1..Len(result2) : Kind(i) = "NewLine" /\ result2[i].n >= 2

\* the line feeds among the first m characters of the input
LineFeedsUpTo(m) == Cardinality({j \in 1..m : text[j] = "\n"})

\* C20: the number of every NewLine token of the final output is 1 plus the
\* number of line feeds of the input from its start through the end of the
\* token, those inside earlier comments, string literals and Invalid tokens
\* included; carriage returns do not count.
C20_LineNumbers ==
    \A k \in Tokens :
        result3[k].token = "NewLine" => result3[k].n = 1 + LineFeedsUpTo(EndOf(result3[k]))

\* C20 witness: a NewLine token made of carriage returns only has been
\* emitted after a comment, a string literal or an Invalid token that holds
\* a line feed, with the number 2 or more.
C20_Witness ==
    \E k \in Tokens :
        /\ result3[k].token = "NewLine"
        /\ \A j \in 1..Len(result3[k].text) : result3[k].text[j] = "\r"
        /\ result3[k].n >= 2
        /\ \E m \in 1..(k - 1) :
              /\ result3[m].token \in {"MultiLineComment", "StrLiteral", "Invalid"}
              /\ \E j \in 1..Len(result3[m].text) : result3[m].text[j] = "\n"

\* the offset of the cursor of pass 1
StrParserPosition(p) == IF p.current_item = None THEN Len(text) ELSE p.current_item

\* a step that stays in a loop moves the cursor of the loop forward, and a
\* step of an inner loop whose cursor has no span left returns
LoopsAdvance ==
    /\ pc = "pass1" /\ pc' = "pass1" =>
          StrParserPosition(parser1') > StrParserPosition(parser1)
    /\ pc = "pass2" /\ pc' = "pass2" => parser2'.end_index > parser2.end_index
    /\ pc = "pass3" /\ pc' \in {"pass3", "comment", "string"} =>
          parser3'.end_index > parser3.end_index
    /\ pc \in {"comment", "string"} /\ pc' = pc => parser3'.end_index > parser3.end_index
    /\ pc \in {"comment", "string"} /\ parser3.next_item = None => pc' = "pass3"

SpansNonEmpty ==
    /\ \A i \in 1..Len(result1) : result1[i].text # <<>>
    /\ \A i \in 1..Len(result2) : result2[i].text # <<>>
    /\ \A i \in 1..Len(result3) : result3[i].text # <<>>

\* C21: every call of parse returns; every step that stays in the main loop
\* of a pass or in an inner scanning loop moves the cursor forward, an inner
\* loop returns at the latest when no span is left, and every span emitted
\* by every pass is non-empty.
C21_Terminates ==
    /\ [][LoopsAdvance]_vars
    /\ []SpansNonEmpty
    /\ (pc # "done") ~> Done

\* C21 witness: parse has returned after a string or comment loop ran to
\* the end of the input, with a greedy run in pass 1.
C21_Witness ==
    /\ Done
    /\ \E k \in Tokens :
          /\ result3[k].token = "Invalid"
          /\ result3[k].reason \in {UnclosedString, UnclosedComment}
          /\ ToEndOfInput(result3[k])
          /\ NSpans(result3[k]) >= 2
    /\ \E i \in 1..Len(result1) : Len(result1[i].text) >= 2

\* the kinds of span that open the construct an unclosed token reports
OpenersOf(reason) ==
    CASE reason = UnclosedComment -> {"BeginMultiLineComment"}
      [] reason = UnclosedString -> {"StrDelimiter", "StrPrefix"}
      [] reason = UnclosedChar -> {"CharDelimiter"}

\* C22: an Invalid token that reports an unclosed block comment, string
\* literal or char literal starts at the opener of the construct, runs to the
\* end of the input whatever follows the opener, and is the last token.
C22_UnclosedRunsToEnd ==
    \A k \in Tokens :
        LET tk == result3[k]
        IN  tk.token = "Invalid" /\ tk.reason \in {UnclosedComment, UnclosedString, UnclosedChar} =>
                /\ Kind(FirstSpan(tk)) \in OpenersOf(tk.reason)
                /\ ToEndOfInput(tk)
                /\ LastSpan(tk) = Len(result2)
                /\ k = Len(result3)

\* C22 witness: parse has returned, after other tokens, an unclosed token
\* that holds after its opener the opener of another construct and a
\* NewLine span.
C22_Witness ==
    /\ Done
    /\ Len(result3) >= 2
    /\ LET tk == result3[Len(result3)]
       IN  /\ tk.token = "Invalid"
           /\ tk.reason \in {UnclosedComment, UnclosedString, UnclosedChar}
           /\ \E j \in (FirstSpan(tk) + 1)..LastSpan(tk) :
                 Kind(j) \in {"BeginMultiLineComment", "BeginSingleLineComment",
                              "StrDelimiter", "CharDelimiter"}
           /\ \E j \in (FirstSpan(tk) + 1)..LastSpan(tk) : Kind(j) = "NewLine"

PrefixTexts == {<<"b">>, <<"r">>, <<"b", "r">>}

\* C23: in the output of pass 2 the text of a StrPrefix span is b, r or br,
\* and a Word span starts with an underscore or a letter other than b and r
\* and holds letters, digits and underscores only.
C23_PrefixAndWordTexts ==
    \A i \in 1..Len(result2) :
        LET s == result2[i]
        IN  /\ s.token = "StrPrefix" => s.text \in PrefixTexts
            /\ s.token = "Word" =>
                  /\ s.text[1] \in Letters \ {"b", "r"}
                  /\ \A j \in 1..Len(s.text) : s.text[j] \in Letters \cup Digits

\* C23 witness: pass 2 has returned a StrPrefix br and a Word that starts
\* with an underscore or a capital and holds a b or an r, and a digit.
C23_Witness ==
    /\ PassTwoDone
    /\ \E i \in 1..Len(result2) : Kind(i) = "StrPrefix" /\ result2[i].text = <<"b", "r">>
    /\ \E i \in 1..Len(result2) :
          /\ Kind(i) = "Word"
          /\ result2[i].text[1] \in {"_", "B"}
          /\ \E j \in 1..Len(result2[i].text) : result2[i].text[j] \in {"b", "r"}
          /\ \E j \in 1..Len(result2[i].text) : result2[i].text[j] \in Digits

SpacesDone == pc = "spaces_done"

\* the sequences after the first are the maximal runs of white space, tagged
\* Space, and of other characters, tagged Other, and spell the input
RunsAfterFirst(result) ==
    LET runs == SubSeq(result, 2, Len(result))
    IN  /\ \A i \in 1..Len(runs) :
              /\ runs[i].token \in {"Space", "Other"}
              /\ runs[i].text # <<>>
              /\ \A j \in 1..Len(runs[i].text) :
                    is_whitespace(runs[i].text[j]) <=> runs[i].token = "Space"
        /\ \A i \in 1..(Len(runs) - 1) : runs[i].token # runs[i + 1].token
        /\ ConcatText(runs) = text

\* C24 as stated: parse_spaces returns one leading sequence tagged None and,
\* after it, maximal runs tagged Space and Other in alternation, whose texts
\* concatenated are the input.
C24_LeadingNoneThenRuns ==
    SpacesDone =>
        /\ Len(spaces.result) >= 1
        /\ spaces.result[1].token = "None"
        /\ RunsAfterFirst(spaces.result)

\* C24 amended: on the empty input parse_spaces returns no sequence; on any
\* other input it returns one leading sequence tagged None, whose text is the
\* first character of the input, and after it maximal runs tagged Space and
\* Other in alternation, whose texts concatenated are the input.
C24_RunsOfNonEmptyInput ==
    SpacesDone =>
        IF text = <<>>
        THEN spaces.result = <<>>
        ELSE /\ spaces.result[1] = [token |-> "None", text |-> <<text[1]>>]
             /\ RunsAfterFirst(spaces.result)

\* C24 witness: parse_spaces has returned a None sequence, then runs of both
\* tags of two characters or more, four runs at least.
C24_Witness ==
    /\ SpacesDone
    /\ Len(spaces.result) >= 5
    /\ spaces.result[1].token = "None"
    /\ \E i \in 2..Len(spaces.result) :
          spaces.result[i].token = "Space" /\ Len(spaces.result[i].text) >= 2
    /\ \E i \in 2..Len(spaces.result) :
          spaces.result[i].token = "Other" /\ Len(spaces.result[i].text) >= 2

====
